---- MODULE Spec2Model ----
(***************************************************************************)
(* A model of auto-installer.py: the Config store, the one-shot OAuth      *)
(* callback handshake (login_eco and its callback server) and the          *)
(* certificate / device / profile reconciliation against the remote API.   *)
(*                                                                         *)
(* Strings are modelled as sequences of atoms (<<>> is the empty string),  *)
(* so that concatenation and character replacement are computed.           *)
(***************************************************************************)
EXTENDS Naturals, Sequences, FiniteSets, TLC

VARIABLES
    cfgFile,     \* eco_config.json: [st: absent | ok | corrupt, doc: key -> string]
    faults,      \* I/O faults injected so far (failed open / failed dump)
    cfgOp,       \* the last Config operation, with the document it started from
    disk,        \* the local files that exist (paths)
    remoteCerts, \* the remote certificate list, in listing order
    remoteDevs,  \* the remote device list, in listing order
    fresh,       \* number of identifiers the remote side has generated
    pc,          \* position of the main thread in the pipeline
    run,         \* number of runs started
    pkg,         \* bundle name of the package of the current run
    log,         \* the remote calls and login cycles of the current run, in order
    listing,     \* the parsed listing the current step works on
    dl,          \* the certificate being downloaded: [id, obj, new]
    found,       \* the device record found for the connected device
    certRes,     \* what create_and_download_debug_cert returned in this run: [path, how]
    profRes,     \* what create_and_download_debug_profile returned in this run: [path, how]
    prev,        \* what the previous run did and left (results, Config, disk)
    start,       \* what the current reconciliation step started from
    profileFor,  \* per profile file written: the certificate and device ids requested
    lpc,         \* login_eco: position of the calling thread
    srv,         \* callback server thread: idle | select | handler step | closed
    shutdownReq, \* httpd's shutdown request flag
    shutdownThreads, \* shutdown threads spawned and not yet run
    pending,     \* connections waiting to be accepted, in arrival order
    arrived,     \* number of requests that have arrived
    cur,         \* the request being handled
    tokenFile,   \* the one-shot handoff file: absent, or the written userInfo
    responses,   \* the responses sent, in order: [path, code, after]
    exch,        \* the userInfo the token exchange returned for the request being handled
    tokens,      \* login_eco: the document read from the handoff file
    portBusy     \* whether port 3333 is bound by somebody else

cfgVars == <<cfgFile, faults, cfgOp>>
reconVars == <<disk, remoteCerts, remoteDevs, fresh, pc, run, pkg, log, listing,
               dl, found, certRes, profRes, prev, start, profileFor>>
loginVars == <<lpc, srv, shutdownReq, shutdownThreads, pending, arrived, cur,
               tokenFile, responses, exch, tokens, portBusy>>
vars == <<cfgVars, reconVars, loginVars>>

----------------------------------------------------------------------------
(* Bounds of the model. *)

MaxFaults == 1
MaxRuns == 2
MaxRemoteCerts == 2
MaxRemoteDevs == 1
MaxRequests == 3
MaxCfgOps == 3
MaxNameLen == 2
MaxPkgLen == 3

----------------------------------------------------------------------------
(* Strings. *)

Empty == <<>>

\* Python truthiness of a string: "" is false.
Truthy(s) == s # Empty

\* str.replace('.', '_')
ReplaceDots(s) == [i \in 1..Len(s) |-> IF s[i] = "." THEN "_" ELSE s[i]]

CERT_NAME == <<"xiaobai-debug">>
PROFILE_NAME == <<"xiaobai-debug">>
DEFAULT_STOREPASS == <<"xiaobai123">>
DEFAULT_KEYALIAS == <<"xiaobai">>

\* os.path.join(CONFIG_DIR, name) and os.path.join(STORE_DIR, name)
InConfigDir(name) == <<"config/">> \o name
InStoreDir(name) == <<"config/", "store/">> \o name

----------------------------------------------------------------------------
(* ConfigStore: eco_config.json. *)

EmptyDoc == [k \in {} |-> Empty]

AbsentFile == [st |-> "absent", doc |-> EmptyDoc]
CorruptFile == [st |-> "corrupt", doc |-> EmptyDoc]
OkFile(d) == [st |-> "ok", doc |-> d]

\* Outcomes of writing the file: written; open() failed (file untouched);
\* open() truncated the file and json.dump then failed.
WriteOutcomes == {"ok", "openfail", "dumpfail"}

\* read_eco_config: {} when the file is absent, and {} again when reading or
\* parsing it fails (the error is printed and swallowed).
read_eco_config(f) ==
    IF f.st = "absent" THEN EmptyDoc
    ELSE IF f.st = "corrupt" THEN EmptyDoc
    ELSE f.doc

\* write_eco_config: any failure is printed and swallowed.
write_eco_config(f, data, w) ==
    CASE w = "ok" -> OkFile(data)
      [] w = "openfail" -> f
      [] w = "dumpfail" -> CorruptFile

get_config_value(f, key) ==
    LET config == read_eco_config(f)
    IN IF key \in DOMAIN config THEN config[key] ELSE Empty

\* for k, v in kwargs.items(): config[k] = v
Merge(config, kwargs) ==
    [k \in (DOMAIN config) \cup (DOMAIN kwargs) |->
        IF k \in DOMAIN kwargs THEN kwargs[k] ELSE config[k]]

update_config(f, kwargs, w) ==
    write_eco_config(f, Merge(read_eco_config(f), kwargs), w)

\* clear_eco_config_file: open(..., "w") and dump {}; a failure ends the run.
clear_eco_config_file(f, w) ==
    CASE w = "ok" -> OkFile(EmptyDoc)
      [] w = "openfail" -> f
      [] w = "dumpfail" -> CorruptFile

\* The write outcomes the fault budget allows.
Outcomes == IF faults < MaxFaults THEN WriteOutcomes ELSE {"ok"}
Charge(w) == IF w = "ok" THEN faults ELSE faults + 1

----------------------------------------------------------------------------
(* initialize_eco_config. *)

\* [file, exit]: the file it leaves, and whether it ended the run.
initialize_eco_config(f, debug, w0, w1, w2) ==
    LET cleared == IF debug THEN clear_eco_config_file(f, w0) ELSE f
    IN  IF debug /\ w0 # "ok"
        THEN [file |-> cleared, exit |-> TRUE]
        ELSE IF cleared.st = "absent"
        THEN [file |-> write_eco_config(cleared,
                          [k \in {"storepass", "keyalias"} |->
                              IF k = "storepass" THEN DEFAULT_STOREPASS
                              ELSE DEFAULT_KEYALIAS], w1),
              exit |-> FALSE]
        ELSE LET f1 == IF ~Truthy(get_config_value(cleared, "storepass"))
                       THEN update_config(cleared,
                               [k \in {"storepass"} |-> DEFAULT_STOREPASS], w1)
                       ELSE cleared
                 \* the key is looked up as "keyAlias" and stored as "keyalias"
                 f2 == IF ~Truthy(get_config_value(f1, "keyAlias"))
                       THEN update_config(f1,
                               [k \in {"keyalias"} |-> DEFAULT_KEYALIAS], w2)
                       ELSE f1
             IN [file |-> f2, exit |-> FALSE]

\* Number of failed writes among the outcomes of one operation.
Failed(ws) == Cardinality({i \in DOMAIN ws : ws[i] # "ok"})

----------------------------------------------------------------------------
(* The rest of the state while only the Config store is exercised. *)

NoRecord == [id |-> Empty, obj |-> Empty, new |-> FALSE]
NoDevice == [id |-> Empty, udid |-> Empty]
NoResult == [path |-> Empty, how |-> "none"]
NoPrev == [op |-> "none", ok |-> FALSE, devOk |-> FALSE, pkg |-> Empty,
           path |-> Empty, cfg |-> AbsentFile, disk |-> {}]
NoStart == [op |-> "none", certId |-> Empty, intact |-> FALSE, stale |-> FALSE,
            cfg |-> AbsentFile, disk |-> {}]
NoRequest == [method |-> "", path |-> "", token |-> FALSE, steps |-> <<>>]
NoUserInfo == [accessToken |-> Empty, userId |-> Empty, nickName |-> Empty]
NoTokenFile == [st |-> "absent", doc |-> NoUserInfo]

ReconIdle ==
    /\ disk = {}
    /\ remoteCerts = <<>>
    /\ remoteDevs = <<>>
    /\ fresh = 0
    /\ pc = "idle"
    /\ run = 0
    /\ pkg = Empty
    /\ log = <<>>
    /\ listing = <<>>
    /\ dl = NoRecord
    /\ found = NoDevice
    /\ certRes = NoResult
    /\ profRes = NoResult
    /\ prev = NoPrev
    /\ start = NoStart
    /\ profileFor = {}

LoginIdle ==
    /\ lpc = "idle"
    /\ srv = "idle"
    /\ shutdownReq = FALSE
    /\ shutdownThreads = 0
    /\ pending = <<>>
    /\ arrived = 0
    /\ cur = NoRequest
    /\ tokenFile = NoTokenFile
    /\ responses = <<>>
    /\ exch = NoUserInfo
    /\ tokens = NoUserInfo
    /\ portBusy = FALSE

----------------------------------------------------------------------------
(* SpecConfig: sequences of Config operations, with I/O faults. *)

CfgKeys == {"storepass", "keyalias", "debug_cert_id"}
CfgVals == {<<"v1">>, <<"v2">>}

\* The keyword arguments of one update_config call: one or two keys.
Kwargs ==
    UNION {[ks -> CfgVals] : ks \in {s \in SUBSET CfgKeys : Cardinality(s) \in {1, 2}}}

NoCfgOp == [op |-> "none", before |-> AbsentFile, named |-> {}, debug |-> FALSE, n |-> 0]

CfgInit ==
    /\ cfgFile = AbsentFile
    /\ faults = 0
    /\ cfgOp = NoCfgOp
    /\ ReconIdle
    /\ LoginIdle

CfgUpdate ==
    /\ cfgOp.n < MaxCfgOps
    /\ \E kwargs \in Kwargs, w \in Outcomes :
        /\ cfgFile' = update_config(cfgFile, kwargs, w)
        /\ faults' = Charge(w)
        /\ cfgOp' = [op |-> "update", before |-> cfgFile, named |-> DOMAIN kwargs,
                     debug |-> FALSE, n |-> cfgOp.n + 1]
    /\ UNCHANGED <<reconVars, loginVars>>

CfgInitialize ==
    /\ cfgOp.n < MaxCfgOps
    /\ \E debug \in BOOLEAN, w0 \in Outcomes, w1 \in Outcomes, w2 \in Outcomes :
        /\ faults + Failed(<<w0, w1, w2>>) <= MaxFaults
        /\ cfgFile' = initialize_eco_config(cfgFile, debug, w0, w1, w2).file
        /\ faults' = faults + Failed(<<w0, w1, w2>>)
        /\ cfgOp' = [op |-> "init", before |-> cfgFile, named |-> {"storepass", "keyalias"},
                     debug |-> debug, n |-> cfgOp.n + 1]
    /\ UNCHANGED <<reconVars, loginVars>>

\* The points at which the process can die during write_eco_config: before
\* open(..., "w"), after open() truncated the file and before json.dump and
\* the close wrote the document out, and after the file was closed.
CrashPoints == {"before_open", "after_open", "after_close"}

\* An update_config call during which the process is killed.
CfgCrash ==
    /\ cfgOp.n < MaxCfgOps
    /\ faults < MaxFaults
    /\ \E kwargs \in Kwargs, at \in CrashPoints :
        /\ cfgFile' = CASE at = "before_open" -> cfgFile
                         [] at = "after_open" -> CorruptFile
                         [] at = "after_close" -> update_config(cfgFile, kwargs, "ok")
        /\ cfgOp' = [op |-> "crash", before |-> cfgFile, named |-> DOMAIN kwargs,
                     debug |-> FALSE, n |-> cfgOp.n + 1]
    /\ faults' = faults + 1
    /\ UNCHANGED <<reconVars, loginVars>>

CfgNext == CfgUpdate \/ CfgInitialize \/ CfgCrash

SpecConfig == CfgInit /\ [][CfgNext]_vars

----------------------------------------------------------------------------
(* login_eco and the callback server it starts.                            *)
(*                                                                         *)
(* Three threads: the caller (login_eco), the server thread (serve, which  *)
(* runs httpd.serve_forever and, inside it, OAuthHandler for one request   *)
(* at a time) and the thread do_POST spawns to call httpd.shutdown.        *)

\* The requests a client may send to port 3333.
Requests ==
    {[method |-> "POST", path |-> "/callback", token |-> TRUE],
     [method |-> "POST", path |-> "/callback", token |-> FALSE],
     [method |-> "POST", path |-> "/other", token |-> FALSE],
     [method |-> "GET", path |-> "/other", token |-> FALSE]}

\* The userInfo objects jwToken/check may return (a nonempty JSON object).
UserInfos ==
    {[accessToken |-> a, userId |-> u, nickName |-> <<"nick">>] :
        a \in {Empty, <<"t1">>}, u \in {Empty, <<"u1">>}}

\* do_POST at work on request r: steps lists, in order, what the handler has
\* done for it so far: "r1" and "r2" (the exchange calls issued), "jwtToken"
\* (the first call succeeded), "userInfo" (the second call returned a nonempty
\* userInfo), "write" (token_file), "respond" (the 200 page) and "shutdown"
\* (the shutdown thread started).
Handling(r) == [method |-> r.method, path |-> r.path, token |-> r.token, steps |-> <<>>]

Did(step) == cur' = [cur EXCEPT !.steps = Append(@, step)]

Respond(code, why) ==
    responses' = Append(responses,
        [method |-> cur.method, path |-> cur.path, token |-> cur.token,
         code |-> code, why |-> why])

\* A variant of the server start that goes on without a server when the
\* port cannot be bound.
LoginStartUnbound ==
    /\ lpc = "start"
    /\ lpc' = "browser"
    /\ srv' = IF portBusy THEN srv ELSE "select"
    /\ UNCHANGED <<cfgVars, reconVars, shutdownReq, shutdownThreads, pending, arrived,
                   cur, tokenFile, responses, exch, tokens, portBusy>>

\* run_login_callback_handler_server_in_background: bind the port, start the thread.
LoginStart ==
    /\ lpc = "start"
    /\ IF portBusy
       THEN /\ lpc' = "exit"
            /\ srv' = srv
       ELSE /\ lpc' = "browser"
            /\ srv' = "select"
    /\ UNCHANGED <<cfgVars, reconVars, shutdownReq, shutdownThreads, pending, arrived,
                   cur, tokenFile, responses, exch, tokens, portBusy>>

\* check_login: open the browser; a failure is printed and ignored.
LoginBrowser ==
    /\ lpc = "browser"
    /\ lpc' = "join"
    /\ UNCHANGED <<cfgVars, reconVars, srv, shutdownReq, shutdownThreads, pending,
                   arrived, cur, tokenFile, responses, exch, tokens, portBusy>>

\* thread.join() returns once serve() has returned.
LoginJoin ==
    /\ lpc = "join"
    /\ srv = "closed"
    /\ lpc' = "check"
    /\ UNCHANGED <<cfgVars, reconVars, srv, shutdownReq, shutdownThreads, pending,
                   arrived, cur, tokenFile, responses, exch, tokens, portBusy>>

\* if not os.path.exists(token_file): sys.exit(1)
LoginCheck ==
    /\ lpc = "check"
    /\ lpc' = IF tokenFile.st = "absent" THEN "exit" ELSE "read"
    /\ UNCHANGED <<cfgVars, reconVars, srv, shutdownReq, shutdownThreads, pending,
                   arrived, cur, tokenFile, responses, exch, tokens, portBusy>>

\* A variant of the read that removes the handoff file only after a
\* successful json.load.
LoginReadKeepsOnError ==
    /\ lpc = "read"
    /\ IF tokenFile.st = "ok"
       THEN /\ tokens' = tokenFile.doc
            /\ lpc' = "extract"
            /\ tokenFile' = NoTokenFile
       ELSE /\ tokens' = tokens
            /\ lpc' = "exit"
            /\ tokenFile' = tokenFile
    /\ UNCHANGED <<cfgVars, reconVars, srv, shutdownReq, shutdownThreads, pending,
                   arrived, cur, responses, exch, portBusy>>

\* json.load(token_file); finally: os.remove(token_file)
LoginRead ==
    /\ lpc = "read"
    /\ IF tokenFile.st = "ok"
       THEN /\ tokens' = tokenFile.doc
            /\ lpc' = "extract"
       ELSE /\ tokens' = tokens
            /\ lpc' = "exit"
    /\ tokenFile' = NoTokenFile
    /\ UNCHANGED <<cfgVars, reconVars, srv, shutdownReq, shutdownThreads, pending,
                   arrived, cur, responses, exch, portBusy>>

\* The keys login_eco persists: team_id and uid both take userId.
SessionKwargs(t) ==
    [k \in {"oauth2_token", "team_id", "uid", "nick_name"} |->
        CASE k = "oauth2_token" -> t.accessToken
          [] k = "team_id" -> t.userId
          [] k = "uid" -> t.userId
          [] k = "nick_name" -> t.nickName]

\* A variant of the last step of login_eco that persists the fields before
\* it looks at them.
LoginPersistUnchecked ==
    /\ lpc = "extract"
    /\ \E w \in Outcomes :
        /\ cfgFile' = update_config(cfgFile, SessionKwargs(tokens), w)
        /\ faults' = Charge(w)
    /\ lpc' = IF ~Truthy(tokens.accessToken) \/ ~Truthy(tokens.userId)
              THEN "exit" ELSE "returned"
    /\ UNCHANGED <<cfgOp, reconVars, srv, shutdownReq, shutdownThreads, pending,
                   arrived, cur, tokenFile, responses, exch, tokens, portBusy>>

\* Extract the fields; exit when the token or the user id is empty, else persist.
LoginPersist ==
    /\ lpc = "extract"
    /\ IF ~Truthy(tokens.accessToken) \/ ~Truthy(tokens.userId)
       THEN /\ lpc' = "exit"
            /\ UNCHANGED <<cfgFile, faults>>
       ELSE \E w \in Outcomes :
            /\ cfgFile' = update_config(cfgFile, SessionKwargs(tokens), w)
            /\ faults' = Charge(w)
            /\ lpc' = "returned"
    /\ UNCHANGED <<cfgOp, reconVars, srv, shutdownReq, shutdownThreads, pending,
                   arrived, cur, tokenFile, responses, exch, tokens, portBusy>>

\* A client connects while the listening socket is open.
Arrive ==
    /\ srv \notin {"idle", "closed"}
    /\ arrived < MaxRequests
    /\ \E r \in Requests : pending' = Append(pending, r)
    /\ arrived' = arrived + 1
    /\ UNCHANGED <<cfgVars, reconVars, lpc, srv, shutdownReq, shutdownThreads, cur,
                   tokenFile, responses, exch, tokens, portBusy>>

\* serve_forever: the loop ends once the shutdown flag is seen; serve() then
\* closes the socket and the log.
ServeExit ==
    /\ srv = "select"
    /\ shutdownReq
    /\ srv' = "closed"
    /\ pending' = <<>>
    /\ UNCHANGED <<cfgVars, reconVars, lpc, shutdownReq, shutdownThreads, arrived, cur,
                   tokenFile, responses, exch, tokens, portBusy>>

\* serve_forever: the flag is not set and a connection is ready: handle it.
ServeAccept ==
    /\ srv = "select"
    /\ ~shutdownReq
    /\ pending # <<>>
    /\ cur' = Handling(Head(pending))
    /\ pending' = Tail(pending)
    /\ srv' = "h_path"
    /\ UNCHANGED <<cfgVars, reconVars, lpc, shutdownReq, shutdownThreads, arrived,
                   tokenFile, responses, exch, tokens, portBusy>>

\* A GET is served by SimpleHTTPRequestHandler, which answers 200 with the
\* file or directory of the working directory the path names and 404 when
\* there is none; do_POST checks path and tempToken.
HandlePath ==
    /\ srv = "h_path"
    /\ IF cur.method = "GET"
       THEN /\ \E served \in BOOLEAN : Respond(IF served THEN 200 ELSE 404, "get")
            /\ srv' = "select"
       ELSE IF cur.path # "/callback"
       THEN Respond(404, "path") /\ srv' = "select"
       ELSE IF ~cur.token
       THEN Respond(400, "tempToken") /\ srv' = "select"
       ELSE responses' = responses /\ srv' = "h_r1"
    /\ UNCHANGED <<cfgVars, reconVars, lpc, shutdownReq, shutdownThreads, pending,
                   arrived, cur, tokenFile, exch, tokens, portBusy>>

\* A variant of the first call that goes on to the second call whatever the
\* first one returned.
HandleTempTokenUnchecked ==
    /\ srv = "h_r1"
    /\ \E ok \in BOOLEAN :
        /\ cur' = [cur EXCEPT !.steps = @ \o (IF ok THEN <<"r1", "jwtToken">> ELSE <<"r1">>)]
        /\ responses' = responses
        /\ srv' = "h_r2"
    /\ UNCHANGED <<cfgVars, reconVars, lpc, shutdownReq, shutdownThreads, pending,
                   arrived, tokenFile, exch, tokens, portBusy>>

\* First call: tempToken -> jwtToken.
HandleTempToken ==
    /\ srv = "h_r1"
    /\ \E ok \in BOOLEAN :
        IF ok
        THEN /\ cur' = [cur EXCEPT !.steps = @ \o <<"r1", "jwtToken">>]
             /\ responses' = responses
             /\ srv' = "h_r2"
        ELSE /\ Did("r1")
             /\ Respond(400, "exchange")
             /\ srv' = "select"
    /\ UNCHANGED <<cfgVars, reconVars, lpc, shutdownReq, shutdownThreads, pending,
                   arrived, tokenFile, exch, tokens, portBusy>>

\* Second call: jwtToken -> userInfo; the call may fail, the body may not be
\* JSON, userInfo may be missing or empty.
HandleJwtToken ==
    /\ srv = "h_r2"
    /\ \/ \E ui \in UserInfos :
            /\ exch' = ui
            /\ cur' = [cur EXCEPT !.steps = @ \o <<"r2", "userInfo">>]
            /\ responses' = responses
            /\ srv' = "h_write"
       \/ /\ Did("r2")
          /\ Respond(400, "exchange")
          /\ srv' = "select"
          /\ exch' = exch
    /\ UNCHANGED <<cfgVars, reconVars, lpc, shutdownReq, shutdownThreads, pending,
                   arrived, tokenFile, tokens, portBusy>>

\* Write userInfo to token_file; an exception is logged and swallowed.
HandleWrite ==
    /\ srv = "h_write"
    /\ \E w \in Outcomes :
        /\ tokenFile' = CASE w = "ok" -> [st |-> "ok", doc |-> exch]
                          [] w = "openfail" -> tokenFile
                          [] w = "dumpfail" -> [st |-> "corrupt", doc |-> NoUserInfo]
        /\ faults' = Charge(w)
    /\ srv' = "h_respond"
    /\ Did("write")
    /\ UNCHANGED <<cfgFile, cfgOp, reconVars, lpc, shutdownReq, shutdownThreads, pending,
                   arrived, responses, exch, tokens, portBusy>>

\* send_response(200) and the confirmation page.
HandleRespond ==
    /\ srv = "h_respond"
    /\ Respond(200, "done")
    /\ Did("respond")
    /\ srv' = "h_shutdown"
    /\ UNCHANGED <<cfgVars, reconVars, lpc, shutdownReq, shutdownThreads, pending,
                   arrived, tokenFile, exch, tokens, portBusy>>

\* threading.Thread(target=self.server.shutdown).start(); do_POST returns.
HandleShutdown ==
    /\ srv = "h_shutdown"
    /\ shutdownThreads' = shutdownThreads + 1
    /\ srv' = "select"
    /\ Did("shutdown")
    /\ UNCHANGED <<cfgVars, reconVars, lpc, shutdownReq, pending, arrived,
                   tokenFile, responses, exch, tokens, portBusy>>

\* The spawned thread runs httpd.shutdown(): it sets the flag serve_forever polls.
ShutdownRun ==
    /\ shutdownThreads > 0
    /\ shutdownThreads' = shutdownThreads - 1
    /\ shutdownReq' = TRUE
    /\ UNCHANGED <<cfgVars, reconVars, lpc, srv, pending, arrived, cur, tokenFile,
                   responses, exch, tokens, portBusy>>

StaleSession ==
    [k \in {"oauth2_token", "team_id", "uid", "nick_name"} |-> <<"old">>]

LoginInit ==
    /\ cfgFile \in {AbsentFile, OkFile(StaleSession)}
    /\ faults = 0
    /\ cfgOp = NoCfgOp
    /\ ReconIdle
    /\ lpc = "start"
    /\ srv = "idle"
    /\ shutdownReq = FALSE
    /\ shutdownThreads = 0
    /\ pending = <<>>
    /\ arrived = 0
    /\ cur = NoRequest
    /\ tokenFile = NoTokenFile
    /\ responses = <<>>
    /\ exch = NoUserInfo
    /\ tokens = NoUserInfo
    /\ portBusy \in BOOLEAN

LoginNext ==
    \/ LoginStart \/ LoginBrowser \/ LoginJoin \/ LoginCheck \/ LoginRead
    \/ LoginPersist
    \/ Arrive \/ ServeExit \/ ServeAccept
    \/ HandlePath \/ HandleTempToken \/ HandleJwtToken \/ HandleWrite
    \/ HandleRespond \/ HandleShutdown
    \/ ShutdownRun

SpecLogin == LoginInit /\ [][LoginNext]_vars

\* The steps of each thread. The server thread runs serve_forever and, inside
\* it, do_POST, whose calls all return (the exchange calls pass timeout=10);
\* the caller runs login_eco.
ServerThread ==
    \/ ServeExit \/ ServeAccept
    \/ HandlePath \/ HandleTempToken \/ HandleJwtToken \/ HandleWrite
    \/ HandleRespond \/ HandleShutdown

MainThread ==
    LoginStart \/ LoginBrowser \/ LoginJoin \/ LoginCheck \/ LoginRead \/ LoginPersist

\* The login cycle with every thread scheduled fairly: a thread that can
\* take a step eventually takes one. Clients connect when they please.
SpecLoginFair ==
    /\ LoginInit
    /\ [][LoginNext]_vars
    /\ WF_vars(ServerThread)
    /\ WF_vars(ShutdownRun)
    /\ WF_vars(MainThread)

----------------------------------------------------------------------------
(* The remote API.                                                         *)

Unary(n) == [j \in 1..n |-> "i"]

\* HTTP status of a response; http_request reports a network failure as 0.
Statuses == {200, 401, 500, 0}

\* What a 200 response carries: the expected document; a document with a
\* nonzero ret.code (and none of the expected fields); ret.code 0 but the
\* expected fields missing; not JSON at all.
Bodies == {"ok", "rejected", "partial", "nonjson"}

Responses ==
    {[st |-> 200, body |-> b] : b \in Bodies}
        \cup {[st |-> c, body |-> "none"] : c \in Statuses \ {200}}

\* Responses of the listing calls: a body without the list reads as an empty list.
ListResponses == {r \in Responses : r.body # "partial"}

Accepted(r) == r.st = 200 /\ r.body = "ok"

MyUdid == <<"udid-A">>
OtherUdid == <<"udid-B">>

\* Remote certificates at the start: slot i holds its own identifiers, and a
\* record may lack its id or its certObjectId, have the production type or
\* another name.
SlotCerts(i) ==
    LET id == <<"id">> \o Unary(i)
        obj == <<"obj">> \o Unary(i)
    IN {[id |-> id, certObjectId |-> obj, certName |-> CERT_NAME, certType |-> 1],
        [id |-> id, certObjectId |-> Empty, certName |-> CERT_NAME, certType |-> 1],
        [id |-> Empty, certObjectId |-> obj, certName |-> CERT_NAME, certType |-> 1],
        [id |-> id, certObjectId |-> obj, certName |-> CERT_NAME, certType |-> 2],
        [id |-> id, certObjectId |-> obj, certName |-> <<"other">>, certType |-> 1]}

InitCertLists ==
    UNION {{l \in [1..n -> UNION {SlotCerts(i) : i \in 1..n}] :
                \A i \in 1..n : l[i] \in SlotCerts(i)} : n \in 0..MaxRemoteCerts}

SlotDevs(i) ==
    LET id == <<"dev">> \o Unary(i)
    IN {[id |-> id, udid |-> MyUdid],
        [id |-> Empty, udid |-> MyUdid],
        [id |-> id, udid |-> OtherUdid]}

InitDevLists ==
    UNION {{l \in [1..n -> UNION {SlotDevs(i) : i \in 1..n}] :
                \A i \in 1..n : l[i] \in SlotDevs(i)} : n \in 0..MaxRemoteDevs}

\* http_request attaches the token, the team id and the user id that are in
\* Config when the request is sent.
Event(op, r, arg) ==
    [op |-> op, st |-> r.st, body |-> r.body, arg |-> arg,
     tok |-> get_config_value(cfgFile, "oauth2_token"),
     team |-> get_config_value(cfgFile, "team_id"),
     uid |-> get_config_value(cfgFile, "uid")]

Fail == pc' = "failed"

----------------------------------------------------------------------------
(* create_and_download_debug_cert.                                         *)

cert_file == CERT_NAME \o <<".cer">>
local_cert_path == InConfigDir(cert_file)

\* A variant of the type test that takes production certificates (certType 2) too.
IsAnyType(c) == c.certType \in {1, 2}

\* certType 1 is a debug certificate, 2 a production one.
IsDebug(c) == c.certType = 1
debug_certs(l) == SelectSeq(l, IsDebug)

HasCertName(c) == c.certName = CERT_NAME
same_name_certs(l) == SelectSeq(debug_certs(l), HasCertName)

HasNameAndId(c) == c.certName = CERT_NAME /\ Truthy(c.id)
IdsOf(l) == [i \in 1..Len(l) |-> l[i].id]
same_ids(l) == IdsOf(SelectSeq(debug_certs(l), HasNameAndId))

\* The local copy is reused only if the file exists and the id is the recorded one.
CertReusable(c0) == local_cert_path \in disk /\ c0.id = start.certId

\* What follows a parsed certificate listing l.
CertMatch(l) ==
    LET sn == same_name_certs(l)
    IN  /\ listing' = l
        /\ IF sn # <<>> /\ Truthy(sn[1].id) /\ Truthy(sn[1].certObjectId)
           THEN IF CertReusable(sn[1])
                THEN /\ certRes' = [path |-> local_cert_path, how |-> "reuse"]
                     /\ pc' = "done"
                     /\ dl' = dl
                ELSE /\ dl' = [id |-> sn[1].id, obj |-> sn[1].certObjectId, new |-> FALSE]
                     /\ pc' = "c_reapply"
                     /\ certRes' = certRes
           ELSE /\ pc' = IF same_ids(l) # <<>> THEN "c_delete" ELSE "c_keystore"
                /\ UNCHANGED <<dl, certRes>>

\* A variant of the listing step that answers every 401 with a login, the
\* retried listing included.
CertListStepLooping(retry) ==
    \E r \in ListResponses :
        /\ log' = Append(log, Event("list_certs", r, <<>>))
        /\ IF r.st = 401
           THEN pc' = "c_login" /\ UNCHANGED <<listing, dl, certRes>>
           ELSE IF r.st # 200 \/ r.body = "nonjson"
           THEN Fail /\ UNCHANGED <<listing, dl, certRes>>
           ELSE CertMatch(IF r.body = "ok" THEN remoteCerts ELSE <<>>)

\* get_cert_list and what the caller does with the answer; the listing after
\* a login is fatal on any status but 200.
CertListStep(retry) ==
    \E r \in ListResponses :
        /\ log' = Append(log, Event("list_certs", r, <<>>))
        /\ IF r.st = 401 /\ ~retry
           THEN pc' = "c_login" /\ UNCHANGED <<listing, dl, certRes>>
           ELSE IF r.st # 200 \/ r.body = "nonjson"
           THEN Fail /\ UNCHANGED <<listing, dl, certRes>>
           ELSE CertMatch(IF r.body = "ok" THEN remoteCerts ELSE <<>>)

CertList ==
    /\ pc = "c_list"
    /\ CertListStep(FALSE)
    /\ UNCHANGED <<cfgVars, loginVars, disk, remoteCerts, remoteDevs, fresh, run, pkg,
                   found, profRes, prev, start, profileFor>>

CertRelist ==
    /\ pc = "c_relist"
    /\ CertListStep(TRUE)
    /\ UNCHANGED <<cfgVars, loginVars, disk, remoteCerts, remoteDevs, fresh, run, pkg,
                   found, profRes, prev, start, profileFor>>

\* login_eco as the reconciliation sees it: it returns with the session
\* persisted, or it ends the run (SpecLogin has the cycle in detail).
NewSession == [accessToken |-> <<"t1">>, userId |-> <<"u1">>, nickName |-> <<"nick">>]

LoginStep(next) ==
    \/ \E w \in Outcomes :
        /\ cfgFile' = update_config(cfgFile, SessionKwargs(NewSession), w)
        /\ faults' = Charge(w)
        /\ log' = Append(log, [op |-> "login", st |-> 200, body |-> "ok", arg |-> <<>>,
                               tok |-> Empty, team |-> Empty, uid |-> Empty])
        /\ pc' = next
    \/  /\ UNCHANGED <<cfgFile, faults>>
        /\ log' = Append(log, [op |-> "login", st |-> 0, body |-> "none", arg |-> <<>>,
                               tok |-> Empty, team |-> Empty, uid |-> Empty])
        /\ Fail

CertLogin ==
    /\ pc = "c_login"
    /\ LoginStep("c_relist")
    /\ UNCHANGED <<cfgOp, loginVars, disk, remoteCerts, remoteDevs, fresh, run, pkg,
                   listing, dl, found, certRes, profRes, prev, start, profileFor>>

\* The remote list without the certificates whose id is among ids.
Without(l, ids) ==
    LET Kept(c) == \A i \in 1..Len(ids) : c.id # ids[i]
    IN SelectSeq(l, Kept)

\* delete_certs(same_ids): the answer is not looked at.
CertDelete ==
    /\ pc = "c_delete"
    /\ \E r \in Responses \ {[st |-> 200, body |-> "partial"]} :
        /\ log' = Append(log, Event("delete_certs", r, same_ids(listing)))
        /\ remoteCerts' = IF Accepted(r) THEN Without(remoteCerts, same_ids(listing))
                          ELSE remoteCerts
    /\ pc' = "c_keystore"
    /\ UNCHANGED <<cfgVars, loginVars, disk, remoteDevs, fresh, run, pkg, listing, dl,
                   found, certRes, profRes, prev, start, profileFor>>

\* Outcomes of an external tool (keytool, hdc): it succeeds or the run ends.
ToolOutcomes == {"ok", "fail"}

\* create_keystore: skipped when the file exists, else keytool -genkeypair.
CertKeystore ==
    /\ pc = "c_keystore"
    /\ LET stored == get_config_value(cfgFile, "keystore_file")
           keystore_path == IF Truthy(stored) THEN stored ELSE InStoreDir(<<"xiaobai.p12">>)
       IN IF keystore_path \in disk
          THEN pc' = "c_csr" /\ disk' = disk
          ELSE \E t \in ToolOutcomes :
                IF t = "ok"
                THEN pc' = "c_csr" /\ disk' = disk \cup {keystore_path}
                ELSE Fail /\ disk' = disk
    /\ UNCHANGED <<cfgVars, loginVars, remoteCerts, remoteDevs, fresh, run, pkg, log,
                   listing, dl, found, certRes, profRes, prev, start, profileFor>>

\* create_csr: skipped when the file exists, else keytool -certreq; read_csr.
CertCsr ==
    /\ pc = "c_csr"
    /\ LET stored == get_config_value(cfgFile, "csr_file")
           csr_path == IF Truthy(stored) THEN stored ELSE InStoreDir(<<"xiaobai.csr">>)
       IN IF csr_path \in disk
          THEN pc' = "c_create" /\ disk' = disk
          ELSE \E t \in ToolOutcomes :
                IF t = "ok"
                THEN pc' = "c_create" /\ disk' = disk \cup {csr_path}
                ELSE Fail /\ disk' = disk
    /\ UNCHANGED <<cfgVars, loginVars, remoteCerts, remoteDevs, fresh, run, pkg, log,
                   listing, dl, found, certRes, profRes, prev, start, profileFor>>

\* The certificate the remote side creates for the n-th identifier it generates.
NewCert(n) ==
    [id |-> <<"new">> \o Unary(n), certObjectId |-> <<"newobj">> \o Unary(n),
     certName |-> CERT_NAME, certType |-> 1]

\* create_cert: any status but 200, a body that is not JSON, a nonzero
\* ret.code and a missing id or certObjectId each end the run.
CertCreate ==
    /\ pc = "c_create"
    /\ \E r \in Responses :
        /\ log' = Append(log, Event("create_cert", r, <<>>))
        /\ IF Accepted(r)
           THEN /\ \E front \in BOOLEAN :
                    remoteCerts' = IF front THEN <<NewCert(fresh + 1)>> \o remoteCerts
                                   ELSE Append(remoteCerts, NewCert(fresh + 1))
                /\ fresh' = fresh + 1
                /\ dl' = [id |-> NewCert(fresh + 1).id,
                          obj |-> NewCert(fresh + 1).certObjectId, new |-> TRUE]
                /\ pc' = "c_reapply"
           ELSE Fail /\ UNCHANGED <<remoteCerts, fresh, dl>>
    /\ UNCHANGED <<cfgVars, loginVars, disk, remoteDevs, run, pkg, listing, found,
                   certRes, profRes, prev, start, profileFor>>

\* download_cert, first half: the reapply call resolves the download URL.
CertReapply ==
    /\ pc = "c_reapply"
    /\ \E r \in Responses :
        /\ log' = Append(log, Event("reapply", r, <<dl.obj>>))
        /\ IF Accepted(r) THEN pc' = "c_download" ELSE Fail
    /\ UNCHANGED <<cfgVars, loginVars, disk, remoteCerts, remoteDevs, fresh, run, pkg,
                   listing, dl, found, certRes, profRes, prev, start, profileFor>>

\* download_file: done; failed before the local file was opened; failed while
\* the body was being written (the file is there, cut short).
DownloadOutcomes == {"ok", "fail", "midfail"}

DownloadStep(op, path, next) ==
    \E d \in DownloadOutcomes :
        /\ log' = Append(log, [op |-> op, st |-> IF d = "ok" THEN 200 ELSE 0,
                               body |-> "none", arg |-> path, tok |-> Empty,
                               team |-> Empty, uid |-> Empty])
        /\ disk' = IF d = "fail" THEN disk ELSE disk \cup {path}
        /\ IF d = "ok" THEN pc' = next ELSE Fail

CertDownload ==
    /\ pc = "c_download"
    /\ DownloadStep("download_cert", local_cert_path, "c_save")
    /\ UNCHANGED <<cfgVars, loginVars, remoteCerts, remoteDevs, fresh, run, pkg,
                   listing, dl, found, certRes, profRes, prev, start, profileFor>>

CertKwargs(d) ==
    [k \in {"debug_cert_new_cert", "debug_cert_id", "debug_cert_name", "debug_cert_path"} |->
        CASE k = "debug_cert_new_cert" -> IF d.new THEN <<"true">> ELSE <<"false">>
          [] k = "debug_cert_id" -> d.id
          [] k = "debug_cert_name" -> cert_file
          [] k = "debug_cert_path" -> local_cert_path]

\* update_config(debug_cert_...) and return.
CertSave ==
    /\ pc = "c_save"
    /\ \E w \in Outcomes :
        /\ cfgFile' = update_config(cfgFile, CertKwargs(dl), w)
        /\ faults' = Charge(w)
    /\ certRes' = [path |-> local_cert_path,
                   how |-> IF dl.new THEN "created" ELSE "downloaded"]
    /\ pc' = "done"
    /\ UNCHANGED <<cfgOp, loginVars, disk, remoteCerts, remoteDevs, fresh, run, pkg, log,
                   listing, dl, found, profRes, prev, start, profileFor>>

----------------------------------------------------------------------------
(* create_and_download_debug_profile, with the device lookup inside it.    *)

profile_filename(profile_name, package_name) ==
    profile_name \o <<"_">> \o ReplaceDots(package_name) \o <<".p7b">>

profile_path(package_name) == InConfigDir(profile_filename(PROFILE_NAME, package_name))

\* A variant of the reuse test that trusts the path recorded in Config.
ProfileReusableByRecord(path) == get_config_value(cfgFile, "debug_profile_path") = path

\* The cached file is taken as the profile whenever it exists.
ProfileReusable(path) == path \in disk

ProfileKwargs(package_name) ==
    [k \in {"debug_profile_name", "debug_profile_path"} |->
        IF k = "debug_profile_name" THEN profile_filename(PROFILE_NAME, package_name)
        ELSE profile_path(package_name)]

\* The start of the function: reuse the cached file, or connect to the device
\* and read its UDID (hdc tconn, hdc shell bm get --udid).
ProfileStart ==
    /\ pc = "p_start"
    /\ IF ProfileReusable(profile_path(pkg))
       THEN \E w \in Outcomes :
            /\ cfgFile' = update_config(cfgFile, ProfileKwargs(pkg), w)
            /\ faults' = Charge(w)
            /\ profRes' = [path |-> profile_path(pkg), how |-> "reuse"]
            /\ pc' = "done"
       ELSE /\ \E t \in ToolOutcomes : IF t = "ok" THEN pc' = "d_list" ELSE Fail
            /\ UNCHANGED <<cfgFile, faults, profRes>>
    /\ UNCHANGED <<cfgOp, loginVars, disk, remoteCerts, remoteDevs, fresh, run, pkg, log,
                   listing, dl, found, certRes, prev, start, profileFor>>

\* The first record of the listing with the device's UDID, if any.
RECURSIVE FirstWithUdid(_, _)
FirstWithUdid(l, udid) ==
    IF l = <<>> THEN NoDevice
    ELSE IF Head(l).udid = udid THEN Head(l)
    ELSE FirstWithUdid(Tail(l), udid)

IsFound(d) == d # NoDevice

\* A variant that goes on to the profile request with whatever identifiers
\* it has.
DevFoundUnchecked(d) ==
    /\ found' = d
    /\ pc' = "p_create"

\* With the device record in hand: its id and the recorded certificate id
\* must both be there before the profile is requested.
DevFound(d) ==
    /\ found' = d
    /\ IF ~Truthy(d.id) THEN Fail
       ELSE IF ~Truthy(get_config_value(cfgFile, "debug_cert_id")) THEN Fail
       ELSE pc' = "p_create"

\* A variant of the device listing step that registers the device whenever
\* the listing does not show it, the listing after a registration included.
DevListStepRegistering(first, afterRegister) ==
    \E r \in ListResponses :
        /\ log' = Append(log, Event("list_devices", r, <<>>))
        /\ IF r.st = 401 /\ first
           THEN pc' = "d_login" /\ found' = found
           ELSE IF r.st # 200 \/ r.body = "nonjson"
           THEN Fail /\ found' = found
           ELSE LET l == IF r.body = "ok" THEN remoteDevs ELSE <<>>
                    d == FirstWithUdid(l, MyUdid)
                IN IF IsFound(d) THEN DevFound(d)
                   ELSE pc' = "d_register" /\ found' = found

\* eco_device_list and what the caller does with the answer. The first
\* listing answers 401 with a login; the listing after a login and the one
\* after a registration are fatal on any status but 200.
DevListStep(first, afterRegister) ==
    \E r \in ListResponses :
        /\ log' = Append(log, Event("list_devices", r, <<>>))
        /\ IF r.st = 401 /\ first
           THEN pc' = "d_login" /\ found' = found
           ELSE IF r.st # 200 \/ r.body = "nonjson"
           THEN Fail /\ found' = found
           ELSE LET l == IF r.body = "ok" THEN remoteDevs ELSE <<>>
                    d == FirstWithUdid(l, MyUdid)
                IN IF IsFound(d) THEN DevFound(d)
                   ELSE IF afterRegister THEN Fail /\ found' = found
                   ELSE pc' = "d_register" /\ found' = found

DevList ==
    /\ pc = "d_list"
    /\ DevListStep(TRUE, FALSE)
    /\ UNCHANGED <<cfgVars, loginVars, disk, remoteCerts, remoteDevs, fresh, run, pkg,
                   listing, dl, certRes, profRes, prev, start, profileFor>>

DevLogin ==
    /\ pc = "d_login"
    /\ LoginStep("d_relist")
    /\ UNCHANGED <<cfgOp, loginVars, disk, remoteCerts, remoteDevs, fresh, run, pkg,
                   listing, dl, found, certRes, profRes, prev, start, profileFor>>

DevRelist ==
    /\ pc = "d_relist"
    /\ DevListStep(FALSE, FALSE)
    /\ UNCHANGED <<cfgVars, loginVars, disk, remoteCerts, remoteDevs, fresh, run, pkg,
                   listing, dl, certRes, profRes, prev, start, profileFor>>

\* create_device(name, udid): the answer is not looked at.
DevRegister ==
    /\ pc = "d_register"
    /\ \E r \in Responses \ {[st |-> 200, body |-> "partial"]} :
        /\ log' = Append(log, Event("create_device", r, MyUdid))
        /\ IF Accepted(r)
           THEN /\ remoteDevs' = Append(remoteDevs,
                        [id |-> <<"newdev">> \o Unary(fresh + 1), udid |-> MyUdid])
                /\ fresh' = fresh + 1
           ELSE UNCHANGED <<remoteDevs, fresh>>
    /\ pc' = "d_relist2"
    /\ UNCHANGED <<cfgVars, loginVars, disk, remoteCerts, run, pkg, listing, dl, found,
                   certRes, profRes, prev, start, profileFor>>

DevRelistAfterRegister ==
    /\ pc = "d_relist2"
    /\ DevListStep(FALSE, TRUE)
    /\ UNCHANGED <<cfgVars, loginVars, disk, remoteCerts, remoteDevs, fresh, run, pkg,
                   listing, dl, certRes, profRes, prev, start, profileFor>>

\* create_profile(profile_name, cert_id, package_name, [dev_id]).
ProfileCreate ==
    /\ pc = "p_create"
    /\ \E r \in Responses :
        /\ log' = Append(log, Event("create_profile", r,
                    <<get_config_value(cfgFile, "debug_cert_id"), found.id>>))
        /\ IF Accepted(r) THEN pc' = "p_download" ELSE Fail
    /\ UNCHANGED <<cfgVars, loginVars, disk, remoteCerts, remoteDevs, fresh, run, pkg,
                   listing, dl, found, certRes, profRes, prev, start, profileFor>>

ProfileDownload ==
    /\ pc = "p_download"
    /\ DownloadStep("download_profile", profile_path(pkg), "p_save")
    /\ profileFor' = IF profile_path(pkg) \in disk'
                     THEN profileFor \cup {[path |-> profile_path(pkg),
                                            cert |-> get_config_value(cfgFile, "debug_cert_id"),
                                            dev |-> found.id]}
                     ELSE profileFor
    /\ UNCHANGED <<cfgVars, loginVars, remoteCerts, remoteDevs, fresh, run, pkg,
                   listing, dl, found, certRes, profRes, prev, start>>

ProfileSave ==
    /\ pc = "p_save"
    /\ \E w \in Outcomes :
        /\ cfgFile' = update_config(cfgFile, ProfileKwargs(pkg), w)
        /\ faults' = Charge(w)
    /\ profRes' = [path |-> profile_path(pkg), how |-> "created"]
    /\ pc' = "done"
    /\ UNCHANGED <<cfgOp, loginVars, disk, remoteCerts, remoteDevs, fresh, run, pkg, log,
                   listing, dl, found, certRes, prev, start, profileFor>>

----------------------------------------------------------------------------
(* Spec: runs of the two reconciliation steps of main, process_debug_cert  *)
(* and process_debug_profile, starting from the state check_prerequisite   *)
(* leaves on a fresh installation. Each run is one of the two steps; main  *)
(* runs the first and, when it returns, the second.                        *)

\* Bundle names of the packages handed to the script.
Packages == {<<"a", ".", "b">>, <<"c">>}

\* process_debug_cert: read the recorded certificate id, then reconcile.
StartCert ==
    /\ pc = "idle"
    /\ run < MaxRuns
    /\ run' = run + 1
    /\ start' = [op |-> "cert",
                 certId |-> get_config_value(cfgFile, "debug_cert_id"),
                 intact |-> cfgFile = prev.cfg /\ disk = prev.disk,
                 stale |-> FALSE,
                 cfg |-> cfgFile, disk |-> disk]
    /\ pc' = "c_list"
    /\ UNCHANGED <<cfgVars, loginVars, disk, remoteCerts, remoteDevs, fresh, pkg, log,
                   listing, dl, found, certRes, profRes, prev, profileFor>>

\* process_debug_profile(bundle_name).
StartProfile ==
    /\ pc = "idle"
    /\ run < MaxRuns
    /\ run' = run + 1
    /\ \E p \in Packages :
        /\ pkg' = p
        /\ start' = [op |-> "profile",
                     certId |-> Empty,
                     intact |-> cfgFile = prev.cfg /\ disk = prev.disk,
                     stale |-> /\ get_config_value(cfgFile, "debug_profile_path")
                                        = profile_path(p)
                               /\ profile_path(p) \notin disk,
                     cfg |-> cfgFile, disk |-> disk]
    /\ pc' = "p_start"
    /\ UNCHANGED <<cfgVars, loginVars, disk, remoteCerts, remoteDevs, fresh, log,
                   listing, dl, found, certRes, profRes, prev, profileFor>>

\* The step has returned, or sys.exit has ended the run.
EndRun ==
    /\ pc \in {"done", "failed"}
    /\ prev' = [op |-> start.op,
                ok |-> pc = "done",
                devOk |-> \E i \in 1..Len(log) : log[i].op = "create_profile",
                pkg |-> pkg,
                path |-> IF start.op = "cert" THEN certRes.path ELSE profRes.path,
                cfg |-> cfgFile,
                disk |-> disk]
    /\ pc' = "idle"
    /\ pkg' = Empty
    /\ log' = <<>>
    /\ listing' = <<>>
    /\ dl' = NoRecord
    /\ found' = NoDevice
    /\ certRes' = NoResult
    /\ profRes' = NoResult
    /\ start' = NoStart
    /\ UNCHANGED <<cfgVars, loginVars, disk, remoteCerts, remoteDevs, fresh, run, profileFor>>

\* Between two runs a downloaded file may be removed from the disk.
LoseFile ==
    /\ pc = "idle"
    /\ run >= 1
    /\ disk = prev.disk
    /\ \E f \in disk \cap ({local_cert_path} \cup {profile_path(p) : p \in Packages}) :
        /\ disk' = disk \ {f}
        /\ profileFor' = {m \in profileFor : m.path # f}
    /\ UNCHANGED <<cfgVars, loginVars, remoteCerts, remoteDevs, fresh, pc, run, pkg, log,
                   listing, dl, found, certRes, profRes, prev, start>>

\* Config and STORE_DIR as check_prerequisite leaves them on a fresh installation.
FreshConfig ==
    [k \in {"storepass", "keyalias", "csr_file", "keystore_file"} |->
        CASE k = "storepass" -> DEFAULT_STOREPASS
          [] k = "keyalias" -> DEFAULT_KEYALIAS
          [] k = "csr_file" -> InStoreDir(<<"xiaobai.csr">>)
          [] k = "keystore_file" -> InStoreDir(<<"xiaobai.p12">>)]

\* Config once the certificate step has created and recorded a certificate.
CertifiedConfig ==
    Merge(FreshConfig,
          CertKwargs([id |-> NewCert(1).id, obj |-> NewCert(1).certObjectId, new |-> TRUE]))

\* A fresh installation facing any remote certificate list, or an installation
\* whose certificate step has already created its certificate, facing any
\* remote device list. (The certificate step never reads the devices and the
\* profile step never reads the certificates.)
Init ==
    /\ faults = 0
    /\ cfgOp = NoCfgOp
    /\ LoginIdle
    /\ \/ /\ cfgFile = OkFile(FreshConfig)
          /\ disk = {InStoreDir(<<"xiaobai.csr">>), InStoreDir(<<"xiaobai.p12">>)}
          /\ remoteCerts \in InitCertLists
          /\ remoteDevs = <<>>
          /\ fresh = 0
       \/ /\ cfgFile = OkFile(CertifiedConfig)
          /\ disk = {InStoreDir(<<"xiaobai.csr">>), InStoreDir(<<"xiaobai.p12">>),
                     local_cert_path}
          /\ remoteCerts = <<NewCert(1)>>
          /\ remoteDevs \in InitDevLists
          /\ fresh = 1
    /\ pc = "idle"
    /\ run = 0
    /\ pkg = Empty
    /\ log = <<>>
    /\ listing = <<>>
    /\ dl = NoRecord
    /\ found = NoDevice
    /\ certRes = NoResult
    /\ profRes = NoResult
    /\ prev = NoPrev
    /\ start = NoStart
    /\ profileFor = {}

Next ==
    \/ StartCert \/ StartProfile \/ EndRun \/ LoseFile
    \/ CertList \/ CertLogin \/ CertRelist \/ CertDelete \/ CertKeystore \/ CertCsr
    \/ CertCreate \/ CertReapply \/ CertDownload \/ CertSave
    \/ ProfileStart \/ DevList \/ DevLogin \/ DevRelist \/ DevRegister
    \/ DevRelistAfterRegister \/ ProfileCreate \/ ProfileDownload \/ ProfileSave

Spec == Init /\ [][Next]_vars

----------------------------------------------------------------------------
(* SpecCache: the same two steps on an installation that has run before:   *)
(* an earlier run recorded its certificate and created, downloaded and     *)
(* recorded the profile of a package for the device it was connected to.   *)
(* Since then the remote certificates and devices may have changed.        *)

\* The device id the cached profile was requested for.
CachedDev == <<"dev">> \o Unary(1)

\* Config once the profile step has recorded the profile of package p.
CachedConfig(p) == Merge(CertifiedConfig, ProfileKwargs(p))

\* The remote certificates now: the recorded certificate, or one same-named
\* debug certificate issued since, which may lack an identifier.
CacheCertLists ==
    {<<NewCert(1)>>} \cup {<<c>> : c \in {d \in SlotCerts(1) : IsDebug(d) /\ HasCertName(d)}}

CacheInit ==
    /\ faults = 0
    /\ cfgOp = NoCfgOp
    /\ LoginIdle
    /\ \E p \in {<<"c">>} :
        /\ cfgFile = OkFile(CachedConfig(p))
        /\ disk = {InStoreDir(<<"xiaobai.csr">>), InStoreDir(<<"xiaobai.p12">>),
                   local_cert_path, profile_path(p)}
        /\ profileFor = {[path |-> profile_path(p), cert |-> NewCert(1).id,
                          dev |-> CachedDev]}
    /\ remoteCerts \in CacheCertLists
    /\ remoteDevs \in InitDevLists
    /\ fresh = 1
    /\ pc = "idle"
    /\ run = 0
    /\ pkg = Empty
    /\ log = <<>>
    /\ listing = <<>>
    /\ dl = NoRecord
    /\ found = NoDevice
    /\ certRes = NoResult
    /\ profRes = NoResult
    /\ prev = NoPrev
    /\ start = NoStart

\* The steps of Spec; no file is removed between the runs.
CacheNext ==
    \/ StartCert \/ StartProfile \/ EndRun
    \/ CertList \/ CertLogin \/ CertRelist \/ CertDelete \/ CertKeystore \/ CertCsr
    \/ CertCreate \/ CertReapply \/ CertDownload \/ CertSave
    \/ ProfileStart \/ DevList \/ DevLogin \/ DevRelist \/ DevRegister
    \/ DevRelistAfterRegister \/ ProfileCreate \/ ProfileDownload \/ ProfileSave

SpecCache == CacheInit /\ [][CacheNext]_vars

\* C25: a profile step that returns by the reuse path returns a file that
\* was requested for the certificate id Config held when the step began and
\* for the remote record of the connected device.
C25_ReuseOnlyConsistent ==
    (pc = "done" /\ profRes.how = "reuse") =>
        \E m \in profileFor :
            /\ m.path = profRes.path
            /\ m.cert = get_config_value(start.cfg, "debug_cert_id")
            /\ \E k \in DOMAIN remoteDevs :
                    remoteDevs[k].udid = MyUdid /\ remoteDevs[k].id = m.dev

----------------------------------------------------------------------------
(* SpecTools: one run of main as the sequence of its external calls, the    *)
(* subprocesses, the HTTP requests and the wait for the login callback.     *)
(* Each call returns, fails, or does not answer; what the caller does with  *)
(* a call that does not answer depends on the timeout it passed. Here the   *)
(* log holds the calls of the run; of the Config writes, the one that ends  *)
(* the certificate step and the one that ends the profile step may fail.    *)

\* A call returns, fails (nonzero exit status, connection error, a status
\* the caller rejects), or does not answer.
CallOutcomes == {"ok", "fail", "slow"}

\* Calls made through http_request.
HttpSites == {"user_team_list", "get_cert_list", "delete_certs", "create_cert",
              "reapply_cert", "eco_device_list", "create_device", "create_profile"}

\* Calls made through download_file.
DownloadSites == {"download_cert", "download_profile"}

\* The timeout each call site passes, in seconds; 0 where it passes none.
TimeoutOf(site) ==
    CASE site \in {"which_java", "java_version", "readlink_java"} -> 0
      [] site = "hdc_tconn_test" -> 10
      [] site \in HttpSites -> 15
      [] site \in DownloadSites -> 30
      [] site = "login_wait" -> 0
      [] site \in {"unpack_hap", "pack_hap"} -> 0
      [] site \in {"keytool_genkeypair", "keytool_certreq"} -> 0
      [] site \in {"hdc_tconn", "hdc_get_udid"} -> 10
      [] site = "sign_app" -> 30

Call(site, out) == [site |-> site, limit |-> TimeoutOf(site), out |-> out]

\* How a call ends for its caller: with a timeout, a call that does not
\* answer raises TimeoutExpired (requests: a RequestException); without one
\* the caller waits for it.
Ends(c) ==
    IF c.out = "slow"
    THEN IF c.limit = 0 THEN "blocked" ELSE "expired"
    ELSE c.out

\* The calls a function can make when it is to make sites in this order:
\* all of them, each returning, or the first k of them with the k-th failing
\* or not answering; every caller stops at the first call that does not
\* return (sys.exit(1), or the wait).
Runs(sites) ==
    {[i \in DOMAIN sites |-> Call(sites[i], "ok")]}
    \cup {[i \in 1..k |-> Call(sites[i], IF i = k THEN out ELSE "ok")] :
            k \in DOMAIN sites, out \in CallOutcomes \ {"ok"}}

\* Where the run is after these calls.
After(calls, next) ==
    IF calls = <<>> THEN next
    ELSE LET e == Ends(calls[Len(calls)])
         IN IF e = "ok" THEN next
            ELSE IF e = "blocked" THEN "blocked"
            ELSE "failed"

ToolsFrameButFaults ==
    UNCHANGED <<cfgOp, loginVars, remoteCerts, remoteDevs, fresh, run, listing,
                dl, found, certRes, profRes, prev, start, profileFor>>

ToolsFrame == UNCHANGED faults /\ ToolsFrameButFaults

\* ensure_jdk17: with JAVA_HOME set, bin/java must be there; without it,
\* which java; then java -version; without JAVA_HOME, readlink -f; then the
\* version and keytool checks.
ToolsEnsureJdk ==
    /\ pc = "t_jdk"
    /\ \E home \in BOOLEAN, bin \in BOOLEAN, fit \in BOOLEAN :
        LET sites == IF home
                     THEN IF bin THEN <<"java_version">> ELSE <<>>
                     ELSE <<"which_java", "java_version", "readlink_java">>
        IN \E calls \in Runs(sites) :
               /\ log' = log \o calls
               /\ pc' = IF home /\ ~bin THEN "failed"
                        ELSE IF After(calls, "t_hdc") # "t_hdc" THEN After(calls, "t_hdc")
                        ELSE IF fit THEN "t_hdc" ELSE "failed"
    /\ UNCHANGED <<cfgFile, disk, pkg>>
    /\ ToolsFrame

\* ensure_hdc_tools: HDC_HOME, hdc and the three jars must be there.
ToolsEnsureHdc ==
    /\ pc = "t_hdc"
    /\ \E fit \in BOOLEAN : pc' = IF fit THEN "t_connect" ELSE "failed"
    /\ UNCHANGED <<cfgFile, disk, pkg, log>>
    /\ ToolsFrame

\* test_connect_device: hdc tconn.
ToolsTestConnect ==
    /\ pc = "t_connect"
    /\ \E calls \in Runs(<<"hdc_tconn_test">>) :
        /\ log' = log \o calls
        /\ pc' = After(calls, "t_config")
    /\ UNCHANGED <<cfgFile, disk, pkg>>
    /\ ToolsFrame

\* check_create_config_dir, initialize_eco_config and check_copy_store_files:
\* the two store files are copied into STORE_DIR and recorded.
ToolsConfig ==
    /\ pc = "t_config"
    /\ \E shipped \in BOOLEAN :
        LET f0 == initialize_eco_config(cfgFile, FALSE, "ok", "ok", "ok").file
            f1 == update_config(f0, [k \in {"csr_file"} |-> InStoreDir(<<"xiaobai.csr">>)], "ok")
            f2 == update_config(f1, [k \in {"keystore_file"} |-> InStoreDir(<<"xiaobai.p12">>)],
                                "ok")
        IN IF shipped
           THEN /\ cfgFile' = f2
                /\ disk' = disk \cup {InStoreDir(<<"xiaobai.csr">>), InStoreDir(<<"xiaobai.p12">>)}
                /\ pc' = "t_login"
           ELSE /\ cfgFile' = f0
                /\ disk' = disk
                /\ pc' = "failed"
    /\ UNCHANGED <<pkg, log>>
    /\ ToolsFrame

\* Whether the calls include a login that returned.
LoggedIn(calls) == \E i \in DOMAIN calls : calls[i].site = "login_wait" /\ calls[i].out = "ok"

\* What the team list probe is answered, call after call, on the paths of
\* check_or_login_huawei_eco that return: teams at once; 401, then teams;
\* no teams, then teams; 401, then no teams, then teams.
ProbeAnswers ==
    {<<"teams">>, <<"401", "teams">>, <<"empty", "teams">>, <<"401", "empty", "teams">>}

\* The calls of the probe for these answers: login_eco (thread.join())
\* follows a 401, and follows an empty team list as well.
RECURSIVE ProbeSites(_)
ProbeSites(answers) ==
    IF Len(answers) = 1 THEN <<"user_team_list">>
    ELSE <<"user_team_list", "login_wait">> \o ProbeSites(Tail(answers))

\* check_or_login_huawei_eco: the team list; on 401, login_eco and the team
\* list once more; on an empty team list, login_eco and the team list once
\* more, even when the list was the one fetched after a login.
ToolsCheckLogin ==
    /\ pc = "t_login"
    /\ \E answers \in ProbeAnswers :
        LET sites == ProbeSites(answers)
        IN \E calls \in Runs(sites) :
               /\ log' = log \o calls
               /\ pc' = After(calls, "t_hap")
               /\ cfgFile' = IF LoggedIn(calls)
                             THEN update_config(cfgFile, SessionKwargs(NewSession), "ok")
                             ELSE cfgFile
    /\ UNCHANGED <<disk, pkg>>
    /\ ToolsFrame

\* prepare_hap: unpack_hap, read the bundle name from module.json, pack_hap.
ToolsPrepareHap ==
    /\ pc = "t_hap"
    /\ \E p \in Packages, readable \in BOOLEAN :
        \E calls \in Runs(IF readable THEN <<"unpack_hap", "pack_hap">> ELSE <<"unpack_hap">>) :
           /\ log' = log \o calls
           /\ pc' = IF After(calls, "t_cert") # "t_cert" THEN After(calls, "t_cert")
                    ELSE IF readable THEN "t_cert" ELSE "failed"
           /\ pkg' = IF After(calls, "t_cert") = "t_cert" /\ readable THEN p ELSE pkg
    /\ UNCHANGED <<cfgFile, disk>>
    /\ ToolsFrame

\* The calls of create_keystore and create_csr: none for a file that exists.
KeytoolSites ==
    (IF InStoreDir(<<"xiaobai.p12">>) \in disk THEN <<>> ELSE <<"keytool_genkeypair">>)
    \o (IF InStoreDir(<<"xiaobai.csr">>) \in disk THEN <<>> ELSE <<"keytool_certreq">>)

\* The calls of create_and_download_debug_cert on each of its paths.
CertSites(path, relogin, stale) ==
    (IF relogin THEN <<"get_cert_list", "login_wait", "get_cert_list">>
     ELSE <<"get_cert_list">>)
    \o CASE path = "reuse" -> <<>>
         [] path = "download" -> <<"reapply_cert", "download_cert">>
         [] path = "create" ->
                (IF stale THEN <<"delete_certs">> ELSE <<>>)
                \o KeytoolSites
                \o <<"create_cert", "reapply_cert", "download_cert">>

\* process_debug_cert.
ToolsCert ==
    /\ pc = "t_cert"
    /\ \E path \in {"reuse", "download", "create"}, relogin \in BOOLEAN, stale \in BOOLEAN :
        /\ (path = "reuse") =>
                /\ local_cert_path \in disk
                /\ Truthy(get_config_value(cfgFile, "debug_cert_id"))
        /\ LET sites == CertSites(path, relogin, stale)
           IN \E calls \in Runs(sites) :
                LET done == After(calls, "t_profile") = "t_profile"
                    f0 == IF LoggedIn(calls)
                          THEN update_config(cfgFile, SessionKwargs(NewSession), "ok")
                          ELSE cfgFile
                IN /\ log' = log \o calls
                   /\ pc' = After(calls, "t_profile")
                   /\ disk' = IF done /\ path # "reuse" THEN disk \cup {local_cert_path}
                              ELSE disk
                   /\ IF done /\ path # "reuse"
                      THEN \E w \in Outcomes :
                            /\ cfgFile' = update_config(f0,
                                            CertKwargs([id |-> NewCert(1).id,
                                                        obj |-> NewCert(1).certObjectId,
                                                        new |-> path = "create"]), w)
                            /\ faults' = Charge(w)
                      ELSE cfgFile' = f0 /\ faults' = faults
    /\ UNCHANGED pkg
    /\ ToolsFrameButFaults

\* The calls of create_and_download_debug_profile when the cached file is
\* not there: the device, the device list, the profile.
ProfileSites(relogin, register) ==
    <<"hdc_tconn", "hdc_get_udid">>
    \o (IF relogin THEN <<"eco_device_list", "login_wait", "eco_device_list">>
        ELSE <<"eco_device_list">>)
    \o (IF register THEN <<"create_device", "eco_device_list">> ELSE <<>>)
    \o <<"create_profile", "download_profile">>

\* process_debug_profile.
ToolsProfile ==
    /\ pc = "t_profile"
    /\ \E relogin \in BOOLEAN, register \in BOOLEAN :
        LET sites == IF ProfileReusable(profile_path(pkg)) THEN <<>>
                     ELSE ProfileSites(relogin, register)
        IN \E calls \in Runs(sites) :
            LET done == After(calls, "t_sign") = "t_sign"
                f0 == IF LoggedIn(calls)
                      THEN update_config(cfgFile, SessionKwargs(NewSession), "ok")
                      ELSE cfgFile
            IN /\ log' = log \o calls
               /\ pc' = After(calls, "t_sign")
               /\ disk' = IF done THEN disk \cup {profile_path(pkg)} ELSE disk
               /\ IF done
                  THEN \E w \in Outcomes :
                        /\ cfgFile' = update_config(f0, ProfileKwargs(pkg), w)
                        /\ faults' = Charge(w)
                  ELSE cfgFile' = f0 /\ faults' = faults
    /\ UNCHANGED pkg
    /\ ToolsFrameButFaults

\* A variant of sign_hap that runs the signer without looking at the files.
ToolsSignUnchecked ==
    /\ pc = "t_sign"
    /\ \E calls \in Runs(<<"sign_app">>) :
        /\ log' = log \o calls
        /\ pc' = After(calls, "done")
    /\ UNCHANGED <<cfgFile, disk, pkg>>
    /\ ToolsFrame

\* sign_hap: the keystore, the certificate and the profile Config names
\* must exist; then hap-sign-tool.jar sign-app.
ToolsSign ==
    /\ pc = "t_sign"
    /\ LET ready == \A k \in {"keystore_file", "debug_cert_path", "debug_profile_path"} :
                        /\ Truthy(get_config_value(cfgFile, k))
                        /\ get_config_value(cfgFile, k) \in disk
       IN IF ready
          THEN \E calls \in Runs(<<"sign_app">>) :
                /\ log' = log \o calls
                /\ pc' = After(calls, "done")
          ELSE /\ log' = log
               /\ pc' = "failed"
    /\ UNCHANGED <<cfgFile, disk, pkg>>
    /\ ToolsFrame

\* main starts on a machine that has never run the script, or on one where
\* an earlier run recorded its certificate and, possibly, left the profile
\* of a package.
ToolsInit ==
    /\ faults = 0
    /\ cfgOp = NoCfgOp
    /\ LoginIdle
    /\ \/ /\ cfgFile = AbsentFile
          /\ disk = {}
       \/ /\ cfgFile = OkFile(CertifiedConfig)
          /\ \E cached \in SUBSET {profile_path(p) : p \in Packages} :
                disk = {InStoreDir(<<"xiaobai.csr">>), InStoreDir(<<"xiaobai.p12">>),
                        local_cert_path} \cup cached
    /\ remoteCerts = <<>>
    /\ remoteDevs = <<>>
    /\ fresh = 0
    /\ pc = "t_jdk"
    /\ run = 0
    /\ pkg = Empty
    /\ log = <<>>
    /\ listing = <<>>
    /\ dl = NoRecord
    /\ found = NoDevice
    /\ certRes = NoResult
    /\ profRes = NoResult
    /\ prev = NoPrev
    /\ start = NoStart
    /\ profileFor = {}

ToolsNext ==
    \/ ToolsEnsureJdk \/ ToolsEnsureHdc \/ ToolsTestConnect \/ ToolsConfig
    \/ ToolsCheckLogin \/ ToolsPrepareHap \/ ToolsCert \/ ToolsProfile \/ ToolsSign

SpecTools == ToolsInit /\ [][ToolsNext]_vars

\* C18: the wait for the login callback is the only call of the run that
\* waits without a limit: every other call that does not answer was made
\* with a timeout and has ended the run, and a run that is waiting for ever
\* is waiting in the login.
C18_OnlyLoginWaitBlocks ==
    /\ \A i \in DOMAIN log :
        (log[i].site # "login_wait" /\ log[i].out = "slow") =>
            (log[i].limit > 0 /\ pc = "failed")
    /\ (pc = "blocked") => (log # <<>> /\ log[Len(log)].site = "login_wait")

\* C26: the probe step holds at most one login: no two waits for the login
\* callback have only team list requests between them.
C26_ProbeLogsInOnce ==
    \A i, j \in DOMAIN log :
        (i < j /\ log[i].site = "login_wait" /\ log[j].site = "login_wait") =>
            \E k \in (i + 1)..(j - 1) : log[k].site # "user_team_list"

\* The stage of main a call belongs to: 1 check_prerequisite, 2 the
\* authentication probe, 3 prepare_hap, 4 process_debug_cert,
\* 5 process_debug_profile, 6 sign_hap; 0 for the login wait, which the
\* probe and both reconciliations can make.
StageOf(site) ==
    CASE site \in {"which_java", "java_version", "readlink_java", "hdc_tconn_test"} -> 1
      [] site = "user_team_list" -> 2
      [] site \in {"unpack_hap", "pack_hap"} -> 3
      [] site \in {"get_cert_list", "delete_certs", "keytool_genkeypair", "keytool_certreq",
                   "create_cert", "reapply_cert", "download_cert"} -> 4
      [] site \in {"hdc_tconn", "hdc_get_udid", "eco_device_list", "create_device",
                   "create_profile", "download_profile"} -> 5
      [] site = "sign_app" -> 6
      [] site = "login_wait" -> 0

SignRefused ==
    /\ pc = "failed"
    /\ log # <<>>
    /\ log[Len(log)].out = "ok"
    /\ log[Len(log)].site = "download_profile"
    /\ get_config_value(cfgFile, "debug_profile_path") = Empty

----------------------------------------------------------------------------
(* SpecNames: the name of the cached profile file as                       *)
(* create_and_download_debug_profile computes it from its two arguments.   *)
(* Here strings are sequences of single characters, pending holds the      *)
(* calls still to be made and log the calls made, each with the file name  *)
(* it computed.                                                            *)

NameChars == {"a", "_"}
PkgChars == {"a", ".", "_"}

\* The nonempty strings over chars of length up to n.
Strings(chars, n) == UNION {[1..k -> chars] : k \in 1..n}

\* The arguments of one call.
ProfileCalls ==
    {[profile_name |-> n, package_name |-> p] :
        n \in Strings(NameChars, MaxNameLen), p \in Strings(PkgChars, MaxPkgLen)}

NamesInit ==
    /\ cfgFile = AbsentFile
    /\ faults = 0
    /\ cfgOp = NoCfgOp
    /\ ReconIdle
    /\ lpc = "idle"
    /\ srv = "idle"
    /\ shutdownReq = FALSE
    /\ shutdownThreads = 0
    /\ pending \in [1..2 -> ProfileCalls]
    /\ arrived = 0
    /\ cur = NoRequest
    /\ tokenFile = NoTokenFile
    /\ responses = <<>>
    /\ exch = NoUserInfo
    /\ tokens = NoUserInfo
    /\ portBusy = FALSE

\* profile_filename = f"{profile_name}_{package_name.replace('.', '_')}.p7b"
NameProfile ==
    /\ pending # <<>>
    /\ LET c == Head(pending)
       IN log' = Append(log, [profile_name |-> c.profile_name,
                              package_name |-> c.package_name,
                              profile_filename |->
                                  profile_filename(c.profile_name, c.package_name)])
    /\ pending' = Tail(pending)
    /\ UNCHANGED <<cfgVars, disk, remoteCerts, remoteDevs, fresh, pc, run, pkg, listing,
                   dl, found, certRes, profRes, prev, start, profileFor, lpc, srv,
                   shutdownReq, shutdownThreads, arrived, cur, tokenFile, responses,
                   exch, tokens, portBusy>>

NamesNext == NameProfile

SpecNames == NamesInit /\ [][NamesNext]_vars

\* C37: the name of the cached file is injective in the pair (profile name,
\* package identifier): two calls with different pairs never compute the
\* same file name.
C37_CacheKeyInjective ==
    \A i \in DOMAIN log : \A j \in DOMAIN log :
        (\/ log[i].profile_name # log[j].profile_name
         \/ log[i].package_name # log[j].package_name)
            => (log[i].profile_filename # log[j].profile_filename)

----------------------------------------------------------------------------
(* Properties of the reconciliation steps (Spec). The log holds the remote *)
(* calls of the run in progress, in the order they were issued.            *)

Range(q) == {q[i] : i \in DOMAIN q}

IsListing(e) == e.op \in {"list_certs", "list_devices"}

\* The calls to the remote API (the login cycle and the file downloads apart).
ApiOps == {"list_certs", "create_cert", "delete_certs", "reapply",
           "list_devices", "create_device", "create_profile"}

CreationOps == {"create_cert", "create_device", "create_profile"}

\* C1: in the certificate step and in the device lookup, a listing answered
\* 401 is followed by one login and, once the login has returned, by one
\* retry of that listing; a retry answered anything but 200 ends the run; the
\* run holds at most one login, and no listing is answered 401 and survived
\* a second time.
C1_OneLoginOneRetry ==
    /\ Cardinality({i \in DOMAIN log : log[i].op = "login"}) <= 1
    /\ \A i \in DOMAIN log :
        /\ (log[i].op = "login") =>
                /\ i = 2
                /\ IsListing(log[1]) /\ log[1].st = 401
                /\ (log[i].st # 200) => (i = Len(log) /\ pc = "failed")
                /\ (i < Len(log)) => (log[i + 1].op = log[1].op)
        /\ (IsListing(log[i]) /\ log[i].st = 401) =>
                IF i = 1
                THEN /\ (Len(log) = 1) => (pc \in {"c_login", "d_login"})
                     /\ (Len(log) > 1) => (log[2].op = "login")
                ELSE i = Len(log) /\ pc = "failed"
        /\ (i = 3 /\ log[2].op = "login" /\ log[3].st # 200) =>
                (Len(log) = 3 /\ pc = "failed")

\* A device listing answered 401, a login, and the retry answered 401 again.
C1_Witness ==
    /\ Len(log) = 3
    /\ log[1].op = "list_devices" /\ log[1].st = 401
    /\ log[2].op = "login" /\ log[2].st = 200
    /\ log[3].op = "list_devices" /\ log[3].st = 401
    /\ pc = "failed"

\* C2: a step that follows a successful run of the same step (for the same
\* package), with Config and the files as that run left them and the remote
\* state unchanged (the remote lists are the ones that run left, and every
\* listing answered 200 carries the list), issues no creation call, and
\* returns the path the first run returned.
C2_Idempotent ==
    (/\ start.op # "none"
     /\ prev.ok
     /\ prev.op = start.op
     /\ (start.op = "profile") => (prev.pkg = pkg)
     /\ start.intact
     /\ \A i \in DOMAIN log :
            (IsListing(log[i]) /\ log[i].st = 200) => (log[i].body = "ok"))
        => /\ \A i \in DOMAIN log : log[i].op \notin CreationOps
           /\ (pc = "done") =>
                (IF start.op = "cert" THEN certRes.path ELSE profRes.path) = prev.path

\* C6: when a certificate is created, every same-named debug entry of the
\* listing has been named in a delete request issued before the create
\* request.
C6_EveryEntryNamed ==
    \A j \in DOMAIN log :
        (log[j].op = "create_cert") =>
            \A k \in DOMAIN listing :
                (listing[k].certType = 1 /\ listing[k].certName = CERT_NAME) =>
                    \E i \in 1..(j - 1) :
                        /\ log[i].op = "delete_certs"
                        /\ listing[k].id \in Range(log[i].arg)

\* A listed certificate the step can download: a debug certificate with the
\* candidate name, an id and a certObjectId.
Downloadable(c) ==
    /\ c.certType = 1 /\ c.certName = CERT_NAME
    /\ c.id # Empty /\ c.certObjectId # Empty

\* C11: when the listing holds a debug certificate with the candidate name,
\* an id and a certObjectId, and at the start of the step the local .cer file
\* was missing or the recorded debug_cert_id was not that id, the step issues
\* no delete and no create request, and when it returns it has downloaded
\* the file and Config records that id and the path.
C11_DownloadFromMatch ==
    (/\ start.op = "cert"
     /\ \E k \in DOMAIN listing :
            /\ Downloadable(listing[k])
            /\ (local_cert_path \notin start.disk \/ start.certId # listing[k].id))
        => /\ \A i \in DOMAIN log : log[i].op \notin {"delete_certs", "create_cert"}
           /\ (pc = "done") =>
                /\ certRes.how = "downloaded"
                /\ local_cert_path \in disk
                /\ get_config_value(cfgFile, "debug_cert_path") = local_cert_path
                /\ \E k \in DOMAIN listing :
                        /\ Downloadable(listing[k])
                        /\ get_config_value(cfgFile, "debug_cert_id") = listing[k].id

\* C12: a certificate step that starts with no certificate recorded in Config
\* and finds no same-named debug certificate in the listing has the keystore
\* and the CSR in place before it submits create_cert, resolves the download
\* URL only after an accepted create_cert and downloads only after the URL is
\* resolved; Config holds no certificate id until the step returns, and when
\* it returns Config records the id the create call returned and the path of
\* the downloaded file.
C12_CreateThenRecord ==
    (/\ start.op = "cert"
     /\ get_config_value(start.cfg, "debug_cert_id") = Empty
     /\ \A k \in DOMAIN listing :
            ~(listing[k].certType = 1 /\ listing[k].certName = CERT_NAME))
        => /\ \A i \in DOMAIN log :
                /\ (log[i].op = "create_cert") =>
                        /\ InStoreDir(<<"xiaobai.p12">>) \in disk
                        /\ InStoreDir(<<"xiaobai.csr">>) \in disk
                /\ (log[i].op = "reapply") =>
                        \E j \in 1..(i - 1) :
                            /\ log[j].op = "create_cert"
                            /\ log[j].st = 200 /\ log[j].body = "ok"
                /\ (log[i].op = "download_cert") =>
                        \E j \in 1..(i - 1) :
                            /\ log[j].op = "reapply"
                            /\ log[j].st = 200 /\ log[j].body = "ok"
           /\ (pc # "done") => (get_config_value(cfgFile, "debug_cert_id") = Empty)
           /\ (pc = "done") =>
                /\ certRes.how = "created"
                /\ local_cert_path \in disk
                /\ get_config_value(cfgFile, "debug_cert_id") = dl.id
                /\ get_config_value(cfgFile, "debug_cert_path") = local_cert_path

\* C19: a step that takes the reuse path (the matching certificate has the
\* recorded id and its file is there; the cached profile is there) sends no
\* mutating remote call and leaves Config and the files as the step found
\* them. (A step that had to log in on the way has written the session and
\* is left aside.)
C19_ReuseChangesNothing ==
    (/\ pc = "done"
     /\ certRes.how = "reuse" \/ profRes.how = "reuse"
     /\ \A i \in DOMAIN log : log[i].op # "login") =>
        /\ \A i \in DOMAIN log : log[i].op \notin (ApiOps \ {"list_certs", "list_devices"})
        /\ \A i \in DOMAIN log : log[i].op \notin {"download_cert", "download_profile"}
        /\ disk = start.disk
        /\ cfgFile = start.cfg

\* C20: when a step has completed, Config records what it produced: after
\* the certificate step, debug_cert_id is the id of the certificate it took
\* from the remote side and debug_cert_path names a file that exists; after
\* the profile step, debug_profile_path names a file that exists.
C20_RecordedAndPresent ==
    (pc = "done") =>
        /\ (start.op = "cert") =>
            /\ Truthy(get_config_value(cfgFile, "debug_cert_id"))
            /\ get_config_value(cfgFile, "debug_cert_id")
                    = IF certRes.how = "reuse" THEN same_name_certs(listing)[1].id ELSE dl.id
            /\ Truthy(get_config_value(cfgFile, "debug_cert_path"))
            /\ get_config_value(cfgFile, "debug_cert_path") \in disk
        /\ (start.op = "profile") =>
            /\ Truthy(get_config_value(cfgFile, "debug_profile_path"))
            /\ get_config_value(cfgFile, "debug_profile_path") \in disk

\* C7: a 401 on a first attempt of any remote call is followed by a login.
C7_Every401Relogins ==
    \A i \in DOMAIN log :
        (/\ log[i].op \in ApiOps
         /\ log[i].st = 401
         /\ (i > 1) => (log[i - 1].op # "login"))
            => /\ (i = Len(log)) => (pc \in {"c_login", "d_login"})
               /\ (i < Len(log)) => (log[i + 1].op = "login")

\* C8: a remote call answered with a status other than 200 and 401 is the
\* last call of the run, and the run has ended in failure.
C8_OtherStatusFatal ==
    \A i \in DOMAIN log :
        (log[i].op \in ApiOps /\ log[i].st \notin {200, 401})
            => (i = Len(log) /\ pc = "failed")

\* C9: a remote call answered 200 with a nonzero ret.code is the last call
\* of the run, and the run has ended in failure.
C9_RejectionFatal ==
    \A i \in DOMAIN log :
        (log[i].op \in ApiOps /\ log[i].st = 200 /\ log[i].body = "rejected")
            => (i = Len(log) /\ pc = "failed")

\* C10: when Config records the path of this package's profile and the file
\* is not on disk, the profile step does not return by the reuse path: the
\* result it returns comes after a device listing, an accepted create-profile
\* request and a completed download.
C10_StaleNotReused ==
    (start.stale /\ profRes # NoResult) =>
        /\ profRes.how = "created"
        /\ \E i, j, k \in DOMAIN log :
            /\ i < j /\ j < k
            /\ log[i].op = "list_devices"
            /\ log[j].op = "create_profile" /\ log[j].st = 200 /\ log[j].body = "ok"
            /\ log[k].op = "download_profile" /\ log[k].st = 200

\* The profile step has returned in a run that began with a recorded but
\* missing profile file.
C10_Witness == start.stale /\ pc = "done" /\ profRes.how = "created"

\* C21: every create-profile request names the certificate id Config
\* recorded when the step began, which is not empty, and the id, not empty
\* either, of a remote device record that has the UDID of the connected
\* device; a step that lacks one of the two ends without such a request.
C21_ProfileNamesReconciledIds ==
    \A i \in DOMAIN log :
        (log[i].op = "create_profile") =>
            /\ start.op = "profile"
            /\ Truthy(log[i].arg[1])
            /\ log[i].arg[1] = get_config_value(start.cfg, "debug_cert_id")
            /\ Truthy(log[i].arg[2])
            /\ \E k \in DOMAIN remoteDevs :
                    /\ remoteDevs[k].udid = MyUdid
                    /\ remoteDevs[k].id = log[i].arg[2]

\* A profile step has sent its create-profile request after registering the
\* device.
C21_Witness ==
    /\ \E i \in DOMAIN log : log[i].op = "create_profile"
    /\ \E i \in DOMAIN log : log[i].op = "create_device"

\* C23: a remote call that ended in a network failure (status 0, no body)
\* is followed neither by a login nor by any further step: it is the last
\* call of the run and the run has ended in failure.
C23_NetworkFailureFatal ==
    \A i \in DOMAIN log :
        (log[i].op \in ApiOps /\ log[i].st = 0) =>
            /\ (i < Len(log)) => (log[i + 1].op # "login")
            /\ i = Len(log)
            /\ pc = "failed"

\* C27: the remote call that follows a login cycle that returned carries
\* the token, the team id and the user id of the new session.
C27_RetryCarriesNewSession ==
    \A i \in DOMAIN log :
        (log[i].op = "login" /\ log[i].st = 200 /\ i < Len(log)) =>
            /\ log[i + 1].op \in ApiOps
            /\ log[i + 1].tok = NewSession.accessToken
            /\ log[i + 1].team = NewSession.userId
            /\ log[i + 1].uid = NewSession.userId

\* The listing names several debug certificates with the candidate name
\* and different ids, and the first of them has its id and its certObjectId.
SeveralMatches(l) ==
    LET sn == same_name_certs(l)
    IN /\ Len(sn) >= 2
       /\ \E i, j \in DOMAIN sn : sn[i].id # sn[j].id
       /\ Truthy(sn[1].id) /\ Truthy(sn[1].certObjectId)

\* C28: when the listing names several such certificates, the certificate
\* step sends no delete-certificates and no create-certificate request, and
\* when it has returned, the certificate it took and the id Config records
\* are those of the first of them in listing order.
C28_FirstMatchWins ==
    (start.op = "cert" /\ SeveralMatches(listing)) =>
        /\ \A i \in DOMAIN log : log[i].op \notin {"delete_certs", "create_cert"}
        /\ (pc = "done") =>
            /\ certRes.how \in {"reuse", "downloaded"}
            /\ (certRes.how = "downloaded") => (dl.id = same_name_certs(listing)[1].id)
            /\ get_config_value(cfgFile, "debug_cert_id") = same_name_certs(listing)[1].id

\* C29: a run sends at most one register-device request; the request comes
\* right after a device listing answered 200 that showed no record with the
\* UDID of the connected device, and is followed by a device listing; a
\* create-profile request is sent only with a device record in hand that has
\* this UDID and an id.
C29_RegisterOnceThenRelist ==
    /\ Cardinality({i \in DOMAIN log : log[i].op = "create_device"}) <= 1
    /\ \A i \in DOMAIN log :
        (log[i].op = "create_device") =>
            /\ i > 1
            /\ log[i - 1].op = "list_devices" /\ log[i - 1].st = 200
            /\ (i < Len(log)) => (log[i + 1].op = "list_devices")
            /\ (i = Len(log)) => (pc = "d_relist2")
    /\ (pc = "d_register" /\ log[Len(log)].body = "ok") =>
            \A k \in DOMAIN remoteDevs : remoteDevs[k].udid # MyUdid
    /\ \A i \in DOMAIN log :
        (log[i].op = "create_profile") =>
            /\ found.udid = MyUdid /\ Truthy(found.id)
            /\ \E j \in 1..(i - 1) : log[j].op = "list_devices" /\ log[j].st = 200

\* The profile step has returned after it registered the device.
C29_Witness ==
    /\ pc = "done" /\ profRes.how = "created"
    /\ \E i \in DOMAIN log : log[i].op = "create_device" /\ log[i].st = 200

\* C32: the ids passed to delete_certs are ids of listed debug certificates
\* (certType 1) named CERT_NAME, and only such certificates leave the remote
\* list; the certificate that is downloaded or whose local copy is reused is
\* such a certificate too. A production certificate and a certificate with
\* another name are never deleted, reused or downloaded.
C32_OnlySameNameDebug ==
    LET Mine(c) == c.certType = 1 /\ c.certName = CERT_NAME
    IN  /\ (pc = "c_keystore" /\ log # <<>> /\ log[Len(log)].op = "delete_certs") =>
                /\ \A i \in DOMAIN log[Len(log)].arg :
                        \E k \in DOMAIN listing :
                            Mine(listing[k]) /\ listing[k].id = log[Len(log)].arg[i]
                /\ \A k \in DOMAIN listing :
                        (\A j \in DOMAIN remoteCerts : remoteCerts[j] # listing[k])
                            => Mine(listing[k])
        /\ (pc \in {"c_reapply", "c_download", "c_save"} /\ ~dl.new) =>
                \E k \in DOMAIN listing :
                    /\ Mine(listing[k])
                    /\ listing[k].id = dl.id
                    /\ listing[k].certObjectId = dl.obj
        /\ (pc = "done" /\ start.op = "cert" /\ certRes.how = "reuse") =>
                \E k \in DOMAIN listing :
                    Mine(listing[k]) /\ listing[k].id = start.certId

\* Certificates were deleted while a production certificate or one with
\* another name was listed, and it is still there.
C32_Witness ==
    /\ pc = "c_keystore"
    /\ log # <<>>
    /\ log[Len(log)].op = "delete_certs"
    /\ Accepted(log[Len(log)])
    /\ Len(remoteCerts) < Len(listing)
    /\ \E j \in DOMAIN remoteCerts :
            remoteCerts[j].certType = 2 \/ remoteCerts[j].certName # CERT_NAME

\* C36: nothing is rolled back when a step ends the run with a fatal error:
\* Config is then the document the last update_config of the run produced,
\* and the document the run started with when it made none. A run whose login
\* returned and whose retried listing then failed leaves the new session
\* keys merged into the document it started with.
C36_NoRollbackOnFailure ==
    (pc = "failed" /\ start.cfg.st = "ok") =>
        IF \E i \in DOMAIN log : log[i].op = "login" /\ log[i].st = 200
        THEN cfgFile = update_config(start.cfg, SessionKwargs(NewSession), "ok")
        ELSE cfgFile = start.cfg

\* A run that logged in and then failed.
FailedAfterLogin ==
    /\ pc = "failed"
    /\ start.cfg.st = "ok"
    /\ \E i \in DOMAIN log : log[i].op = "login" /\ log[i].st = 200

----------------------------------------------------------------------------
(* Properties of the callback server (SpecLogin).                          *)

\* C3: once the server has answered a POST to /callback with 200, it handles
\* no further request: that answer is the last one, and the server thread is
\* not inside a handler.
C3_SingleShot ==
    \A i \in DOMAIN responses :
        (responses[i].code = 200 /\ responses[i].why = "done") =>
            /\ i = Len(responses)
            /\ srv \in {"h_shutdown", "select", "closed"}

\* C4: once a well-formed callback has been answered with an exchange
\* failure, the server is not back in its accept loop unless its shutdown
\* has been requested or is on its way.
C4_ExchangeFailureShutsDown ==
    (/\ srv = "select"
     /\ \E i \in DOMAIN responses :
            responses[i].token /\ responses[i].why = "exchange")
        => (shutdownReq \/ shutdownThreads > 0)

\* C13: a login cycle that ends in failure leaves Config as it was when the
\* cycle began; login_eco returns only after the server has terminated, the
\* handoff file has been read and it carried a nonempty access token and a
\* nonempty user id.
C13_FailedLoginKeepsSession ==
    /\ (lpc = "exit") => (cfgFile \in {AbsentFile, OkFile(StaleSession)})
    /\ (lpc = "returned") =>
            /\ srv = "closed"
            /\ Truthy(tokens.accessToken)
            /\ Truthy(tokens.userId)

\* The server has terminated, the handoff file has been read, and the cycle
\* has failed on an empty access token.
C13_Witness ==
    /\ lpc = "exit"
    /\ srv = "closed"
    /\ tokens # NoUserInfo
    /\ ~Truthy(tokens.accessToken)

\* C14: when a login cycle has ended, by returning or by ending the run, the
\* handoff file is not on disk; once the main thread is past its read of the
\* file, the file is gone and stays gone.
C14_HandoffRemoved ==
    (lpc \in {"extract", "returned", "exit"}) => (tokenFile = NoTokenFile)

\* The server wrote the handoff file, the main thread has read it, and the
\* cycle has ended.
C14_Witness ==
    /\ lpc \in {"returned", "exit"}
    /\ srv = "closed"
    /\ tokens # NoUserInfo
    /\ tokenFile = NoTokenFile

\* C15: the main thread is past thread.join() only when the server thread
\* has terminated, Config is as the cycle found it until then, and the server
\* thread has written the handoff file at most once (each write is followed
\* by the 200 answer of its handler).
C15_Rendezvous ==
    /\ (lpc \in {"check", "read", "extract", "returned"}) => (srv = "closed")
    /\ (srv # "closed") => (cfgFile \in {AbsentFile, OkFile(StaleSession)})
    /\ Cardinality({i \in DOMAIN responses : responses[i].why = "done"})
            + (IF srv = "h_respond" THEN 1 ELSE 0) <= 1

\* C16: when the callback port is already bound, the login cycle ends at the
\* server start: the main thread goes from the start to the end of the run,
\* no server thread runs, no request is answered, the browser step is never
\* reached and Config is as the cycle found it.
C16_PortBusyFailsFast ==
    portBusy =>
        /\ lpc \in {"start", "exit"}
        /\ srv = "idle"
        /\ responses = <<>>
        /\ tokenFile = NoTokenFile
        /\ cfgFile \in {AbsentFile, OkFile(StaleSession)}

\* The port was bound and the run has ended.
C16_Witness == portBusy /\ lpc = "exit"

\* The request being handled, if any, and every request answered so far
\* were for a path other than /callback.
OnlyOtherPaths ==
    /\ \A i \in DOMAIN responses : responses[i].path # "/callback"
    /\ (srv \notin {"idle", "select", "closed"}) => (cur.path # "/callback")

\* C22: a request for a path other than /callback is answered 404, and as
\* long as no other request has come the server is as it was: in its accept
\* loop or answering such a request, with no exchange started, no handoff
\* file written and no shutdown on its way.
C22_OtherPathNotFound ==
    /\ \A i \in DOMAIN responses :
            (responses[i].path # "/callback") => (responses[i].code = 404)
    /\ (srv # "idle" /\ OnlyOtherPaths) =>
            /\ srv \in {"select", "h_path"}
            /\ exch = NoUserInfo
            /\ tokenFile = NoTokenFile
            /\ ~shutdownReq
            /\ shutdownThreads = 0

\* C30: the handler sends 200 only with the identity it obtained written to
\* the handoff file; a POST to /callback without tempToken is answered 400;
\* and as long as every callback has been answered 400 there is no handoff
\* file.
C30_OkOnlyAfterHandoff ==
    /\ (srv = "h_shutdown") =>
            (exch # NoUserInfo /\ tokenFile = [st |-> "ok", doc |-> exch])
    /\ \A i \in DOMAIN responses :
            (responses[i].method = "POST" /\ responses[i].path = "/callback"
                /\ ~responses[i].token) => (responses[i].code = 400)
    /\ \A i \in DOMAIN responses :
            (responses[i].why = "exchange") => (responses[i].code = 400)
    /\ (/\ srv \in {"select", "h_path", "h_r1", "h_r2"}
        /\ \A i \in DOMAIN responses : responses[i].why # "done")
            => (tokenFile = NoTokenFile)

\* What do_POST does for one callback, in the order of its statements.
HandlerOrder == <<"r1", "jwtToken", "r2", "userInfo", "write", "respond", "shutdown">>

\* C31: the handler's steps are strictly sequential: the second exchange call
\* is issued only after the first one succeeded, the handoff file is written
\* only after both succeeded and the second returned a nonempty userInfo, and
\* the 200 response and the start of the shutdown thread follow the write, in
\* that order; so the handoff file, when readable, holds such a userInfo and
\* a shutdown is requested only after a 200 response.
C31_ExchangeWriteAnswerShutdown ==
    /\ \E n \in 0..Len(HandlerOrder) : cur.steps = SubSeq(HandlerOrder, 1, n)
    /\ (srv = "h_r2") => (cur.steps = SubSeq(HandlerOrder, 1, 2))
    /\ (srv = "h_write") => (cur.steps = SubSeq(HandlerOrder, 1, 4) /\ exch \in UserInfos)
    /\ (tokenFile.st = "ok") => (tokenFile.doc \in UserInfos)
    /\ (shutdownReq \/ shutdownThreads > 0) =>
           \E i \in DOMAIN responses : responses[i].why = "done"

\* A callback went through all the steps.
C31_Witness == cur.steps = HandlerOrder /\ tokenFile.st = "ok"

\* The handler of a well-formed callback is past both exchange calls, which
\* returned a userInfo with the identity fields login_eco requires.
CallbackExchanged ==
    /\ srv = "h_write"
    /\ Truthy(exch.accessToken)
    /\ Truthy(exch.userId)

\* login_eco has returned, the server thread has ended and Config holds the
\* session of the identity that was handed over.
LoginCompleted ==
    /\ srv = "closed"
    /\ lpc = "returned"
    /\ Truthy(tokens.accessToken)
    /\ Truthy(tokens.userId)
    /\ \A k \in DOMAIN SessionKwargs(tokens) :
            get_config_value(cfgFile, k) = SessionKwargs(tokens)[k]

\* C35: with the threads scheduled fairly, once a well-formed POST /callback
\* has arrived and both its exchange calls have succeeded with the required
\* identity fields, the server thread eventually ends, login_eco eventually
\* returns, and Config then holds the new oauth2_token, team_id, uid and
\* nick_name.
C35_CallbackCompletesLogin == CallbackExchanged ~> LoginCompleted

----------------------------------------------------------------------------
(* Properties of the Config store (SpecConfig).                            *)

\* C5: an update_config call, and initialize_eco_config outside debug mode,
\* leave every key they do not name with the value it had.
C5_MergeWrite ==
    (cfgOp.op = "update" \/ (cfgOp.op = "init" /\ ~cfgOp.debug)) =>
        \A k \in (DOMAIN read_eco_config(cfgOp.before)) \ cfgOp.named :
            /\ k \in DOMAIN read_eco_config(cfgFile)
            /\ read_eco_config(cfgFile)[k] = read_eco_config(cfgOp.before)[k]

\* C17: a process death during a Config write leaves the file holding a
\* complete document, the one it held before the write or the new one, and
\* never an empty or truncated file.
C17_CrashSafeWrite ==
    (cfgOp.op = "crash" /\ cfgOp.before.st # "corrupt") =>
        \/ cfgFile = cfgOp.before
        \/ /\ cfgFile.st = "ok"
           /\ \A k \in cfgOp.named : k \in DOMAIN cfgFile.doc

\* C24: update_config returns only when it could read the document and has
\* written the merged one: after a call that returned, the file holds a
\* readable document with the keys the call named and the keys it had
\* before, and the file the call found was not an unreadable one.
C24_ConfigErrorsFatal ==
    (cfgOp.op = "update") =>
        /\ cfgOp.before.st # "corrupt"
        /\ cfgFile.st = "ok"
        /\ cfgOp.named \subseteq DOMAIN cfgFile.doc
        /\ DOMAIN cfgOp.before.doc \subseteq DOMAIN cfgFile.doc

\* C34: outside debug mode initialize_eco_config only seeds missing defaults:
\* run on a document that holds a nonempty storepass and a nonempty keyalias,
\* with no write failing, it leaves the whole document as it was.
C34_InitKeepsStoredValues ==
    (/\ cfgOp.op = "init"
     /\ ~cfgOp.debug
     /\ faults = 0
     /\ cfgOp.before.st = "ok"
     /\ Truthy(get_config_value(cfgOp.before, "storepass"))
     /\ Truthy(get_config_value(cfgOp.before, "keyalias")))
        => (cfgFile = cfgOp.before)

====
